---- MODULE Spec2Model ----
(***************************************************************************)
(* Ordered overlapping hierarchy (the relate / unrelate version of the     *)
(* class, src/unnamed/part_002 lines 270-429).                             *)
(*                                                                         *)
(* The state of one instance is its #childrenMap: a JavaScript Map, i.e.   *)
(* an insertion-ordered list of keys and, for each key, an array of        *)
(* children.  Every method is translated into an operator over such a map  *)
(* that returns the map it leaves behind together with what the call       *)
(* returned or the exception it threw.                                     *)
(***************************************************************************)
EXTENDS Integers, Sequences, FiniteSets, TLC

\* ---------------------------------------------------------------- bounds
\* Longest batch handed to relate([...]).
MaxBatch == 2
\* Number of relate / unrelate calls made on the instance after construction.
MaxCalls == 3
\* Explicit childIndex arguments are drawn from -MaxBack..MaxIndex.
MaxIndex == 3
MaxBack == 1
\* Number of relate / unrelate calls made on a source and its clone together.
MaxPairCalls == 2
\* Number of calls made in the sequences over the wider value set.
MaxWideCalls == 3
\* Number of link / unlink / remove calls made on the multi-root class, and
\* the largest explicit index handed to link.
MaxLinkCalls == 4
MaxLinkIndex == 1

\* The member values the callers use; hierarch is the constructor argument.
hierarch == "h"
Values == {"h", "a", "b", "c"}
\* The values of the longer call sequences: one more member value.
WideValues == Values \cup {"d"}

\* An optional childIndex: <<>> is "undefined", <<i>> is the number i.
NoIndex == <<>>
IndexArgs == {NoIndex} \cup {<<i>> : i \in (0 - MaxBack)..MaxIndex}

\* ------------------------------------------------------- array helpers
Range(s) == {s[i] : i \in 1..Len(s)}

\* array.includes(x)
Includes(s, x) == x \in Range(s)

\* array.indexOf(x), 0-based, for an array that includes x
IndexOf(s, x) == (CHOOSE i \in 1..Len(s) : s[i] = x /\ \A j \in 1..(i-1) : s[j] # x) - 1

\* array.filter((item) => item !== x)
Without(s, x) == SelectSeq(s, LAMBDA y : y # x)

\* array.splice(i, 1) for a 0-based i inside the array
SpliceOut(s, i) == SubSeq(s, 1, i) \o SubSeq(s, i + 2, Len(s))

\* array.splice(start, 0, x): a negative start counts from the end, and the
\* start is clamped to [0, length] (ECMAScript Array.prototype.splice).
SpliceIn(s, start, x) ==
  LET rel == IF start < 0
             THEN (IF Len(s) + start < 0 THEN 0 ELSE Len(s) + start)
             ELSE (IF start > Len(s) THEN Len(s) ELSE start)
  IN SubSeq(s, 1, rel) \o <<x>> \o SubSeq(s, rel + 1, Len(s))

\* --------------------------------------------------- the Map #childrenMap
\* keys: the keys in insertion order; kids[k]: the array stored under k
\* (<<>> for a value that is not a key, which is never read).
EmptyMap == [keys |-> <<>>, kids |-> [v \in WideValues |-> <<>>]]

MapHas(m, k) == Includes(m.keys, k)

\* Map.prototype.set: an existing key keeps its place in the iteration order
MapSet(m, k, arr) ==
  [keys |-> IF MapHas(m, k) THEN m.keys ELSE Append(m.keys, k),
   kids |-> [m.kids EXCEPT ![k] = arr]]

\* Map.prototype.delete
MapDelete(m, k) ==
  [keys |-> Without(m.keys, k),
   kids |-> [m.kids EXCEPT ![k] = <<>>]]

\* members(): the set of keys
members(m) == Range(m.keys)

\* constructor(source: Member): only the hierarch, with no children
NewHierarchy == MapSet(EmptyMap, hierarch, <<>>)

\* constructor(source: OrderedOverlappingHierarchy): the hierarch is set
\* first, then every member of the source in the source's key order, each
\* with a copy of its children array; so the copy's keys are the hierarch
\* followed by the source's other keys, and it has the source's arrays.
Clone(source) ==
  [keys |-> <<hierarch>> \o Without(source.keys, hierarch),
   kids |-> source.kids]

\* #add(member): keeps the children of a member, registers a new one with []
add(m, member) ==
  MapSet(m, member, IF MapHas(m, member) THEN m.kids[member] ELSE <<>>)

\* parents(member) of a member: the members whose children include it
parents(m, member) == {n \in members(m) : Includes(m.kids[n], member)}

\* ------------------------------------------------------------ descendants
\* descendants(member) is recursive without a visited set.  The outcome is
\*   defined = FALSE              undefined (member is no key)
\*   fault = "TypeError"          Array.from(undefined): a child that is no key
\*   fault = "RangeError"         the recursion re-enters a member that is still
\*                                on the call stack and so never returns (stack
\*                                overflow)
\*   otherwise set                the Set that is returned.
\* The children are visited in array order, so the first fault met is thrown.
RECURSIVE descendantsRec(_, _, _), flatMapDescendants(_, _, _, _)
flatMapDescendants(m, arr, i, stack) ==
  IF i > Len(arr) THEN [fault |-> "none", set |-> {}]
  ELSE IF arr[i] \in stack THEN [fault |-> "RangeError", set |-> {}]
  ELSE LET d == descendantsRec(m, arr[i], stack)
       IN IF ~d.defined THEN [fault |-> "TypeError", set |-> {}]
          ELSE IF d.fault # "none" THEN [fault |-> d.fault, set |-> {}]
          ELSE LET rest == flatMapDescendants(m, arr, i + 1, stack)
               IN IF rest.fault # "none" THEN rest
                  ELSE [fault |-> "none", set |-> d.set \cup rest.set]

descendantsRec(m, member, stack) ==
  IF ~MapHas(m, member) THEN [defined |-> FALSE, fault |-> "none", set |-> {}]
  ELSE LET r == flatMapDescendants(m, m.kids[member], 1, stack \cup {member})
       IN [defined |-> TRUE, fault |-> r.fault,
           set |-> IF r.fault = "none" THEN Range(m.kids[member]) \cup r.set ELSE {}]

descendants(m, member) == descendantsRec(m, member, {})

\* #hasDescendant: !!this.descendants(parent)?.has(child)
hasDescendant(m, parent, child) ==
  LET d == descendants(m, parent)
  IN [fault |-> d.fault, value |-> d.defined /\ d.fault = "none" /\ child \in d.set]

\* ---------------------------------------------------------------- unrelate
\* An unrelate that never deletes the child.
unrelateKeep(m, parent, child) ==
  MapSet(m, parent, IF MapHas(m, parent) THEN Without(m.kids[parent], child) ELSE <<>>)

\* An unrelate that deletes the child whether or not it keeps a parent.
unrelateDrop(m, parent, child) ==
  MapDelete(MapSet(m, parent,
                   IF MapHas(m, parent) THEN Without(m.kids[parent], child) ELSE <<>>),
            child)

\* An unrelate that, with the child, also deletes the child's children that
\* are left without a parent.
unrelateCascade(m, parent, child) ==
  LET m1 == MapSet(m, parent,
                   IF MapHas(m, parent) THEN Without(m.kids[parent], child) ELSE <<>>)
      m2 == MapDelete(m1, child)
      gone == {g \in Range(m.kids[child]) : MapHas(m2, g) /\ parents(m2, g) = {}}
  IN IF MapHas(m1, child) /\ parents(m1, child) = {}
     THEN [keys |-> SelectSeq(m2.keys, LAMBDA k : k \notin gone),
           kids |-> [v \in WideValues |-> IF v \in gone THEN <<>> ELSE m2.kids[v]]]
     ELSE m1

\* An unrelate that leaves the parent's remaining children in reverse order.
unrelateReversed(m, parent, child) ==
  LET rest == IF MapHas(m, parent) THEN Without(m.kids[parent], child) ELSE <<>>
      m1 == MapSet(m, parent, [i \in 1..Len(rest) |-> rest[Len(rest) + 1 - i]])
  IN IF MapHas(m1, child) /\ parents(m1, child) = {}
     THEN MapDelete(m1, child)
     ELSE m1

\* unrelate({parent, child})
unrelate(m, parent, child) ==
  LET m1 == MapSet(m, parent,
                   IF MapHas(m, parent) THEN Without(m.kids[parent], child) ELSE <<>>)
  IN IF MapHas(m1, child) /\ parents(m1, child) = {}
     THEN MapDelete(m1, child)
     ELSE m1

\* ----------------------------------------------------------------- queries
\* A children() that hands out the stored array itself.
childrenStored(m, member) ==
  [defined |-> MapHas(m, member), array |-> m.kids[member], stored |-> MapHas(m, member)]

\* children(member): undefined for a value that is not a key, else a new
\* array [...children] with the stored array's elements; stored tells whether
\* the array returned is the stored array object itself.
children(m, member) ==
  [defined |-> MapHas(m, member), array |-> m.kids[member], stored |-> FALSE]

\* What hierarchy.children(member)?.pop() leaves in the map: the pop reaches
\* the stored list only if the array returned is the stored one.
popReturned(m, member) ==
  LET c == children(m, member)
  IN IF c.defined /\ c.stored /\ Len(c.array) > 0
     THEN MapSet(m, member, SubSeq(c.array, 1, Len(c.array) - 1))
     ELSE m

\* parents(member): undefined for a value that is not a key
parentsOf(m, member) ==
  [defined |-> MapHas(m, member),
   set |-> IF MapHas(m, member) THEN parents(m, member) ELSE {}]

\* ancestors(member): undefined for a value that is not a key, else the
\* members n, tried in key order, with descendants(n).has(member); an
\* exception of descendants(n) ends the call.
ancestors(m, member) ==
  LET faulty == {i \in 1..Len(m.keys) : descendants(m, m.keys[i]).fault # "none"}
  IN IF ~MapHas(m, member) THEN [defined |-> FALSE, fault |-> "none", set |-> {}]
     ELSE IF faulty # {}
     THEN [defined |-> TRUE, set |-> {},
           fault |-> descendants(m, m.keys[CHOOSE i \in faulty : \A j \in faulty : i <= j]).fault]
     ELSE [defined |-> TRUE, fault |-> "none",
           set |-> {n \in members(m) : member \in descendants(m, n).set}]

\* ----------------------------------------------------------- relationships
\* relationships(): one {parent, child, childIndex} per stored edge, in the
\* Map's iteration order (keys in insertion order, children in array order).
RECURSIVE relationshipsFrom(_, _)
relationshipsFrom(m, i) ==
  IF i > Len(m.keys) THEN <<>>
  ELSE LET p == m.keys[i]
       IN [j \in 1..Len(m.kids[p]) |->
             [parent |-> p, child |-> m.kids[p][j], childIndex |-> j - 1]]
          \o relationshipsFrom(m, i + 1)

\* A relationships() that passes over the Map's first key.
relationshipsAfterFirst(m) == relationshipsFrom(m, 2)

relationships(m) == relationshipsFrom(m, 1)

\* ------------------------------------------------------------------ reduce
\* #isTransitiveRelationship: unrelate the edge in a copy, then ask whether
\* the child is still a descendant of the parent there.
isTransitiveRelationship(m, rel) ==
  hasDescendant(unrelate(Clone(m), rel.parent, rel.child), rel.parent, rel.child)

\* filter(this.#isTransitiveRelationship): the verdict on every relationship,
\* in iteration order
RECURSIVE transitiveFlags(_, _, _)
transitiveFlags(m, rels, i) ==
  IF i > Len(rels) THEN <<>>
  ELSE <<isTransitiveRelationship(m, rels[i])>> \o transitiveFlags(m, rels, i + 1)

\* forEach(this.unrelate, this) over the relationships the filter kept
RECURSIVE unrelateAll(_, _, _, _)
unrelateAll(m, rels, flags, i) ==
  IF i > Len(rels) THEN m
  ELSE unrelateAll(IF flags[i].value THEN unrelate(m, rels[i].parent, rels[i].child) ELSE m,
                   rels, flags, i + 1)

\* #reduce: filter() runs over every relationship before forEach() removes
\* any, so an exception in the filter leaves the map as it was.
reduce(m) ==
  LET rels == relationships(m)
      flags == transitiveFlags(m, rels, 1)
      faulty == {i \in 1..Len(rels) : flags[i].fault # "none"}
  IN IF faulty # {}
     THEN [map |-> m, fault |-> flags[CHOOSE i \in faulty : \A j \in faulty : i <= j].fault]
     ELSE [map |-> unrelateAll(m, rels, flags, 1), fault |-> "none"]

\* ---------------------------------------------------------------- position
\* A #position that ignores the index and always pushes the member.
positionPush(arr, member, index) ==
  [array |-> Append(IF Includes(arr, member) THEN SpliceOut(arr, IndexOf(arr, member)) ELSE arr,
                    member),
   index |-> IF index = NoIndex THEN Len(arr) ELSE index[1]]

\* #position without the removal of the member's old entry.
positionKeep(arr, member, index) ==
  LET effectiveIndex == IF index = NoIndex THEN Len(arr) ELSE index[1]
  IN [array |-> SpliceIn(arr, effectiveIndex, member), index |-> effectiveIndex]

\* #position mutates the array and returns effectiveIndex, which is computed
\* from the array as it is before the member is taken out.
position(arr, member, index) ==
  LET effectiveIndex == IF index = NoIndex THEN Len(arr) ELSE index[1]
      removed == IF Includes(arr, member) THEN SpliceOut(arr, IndexOf(arr, member)) ELSE arr
  IN [array |-> SpliceIn(removed, effectiveIndex, member), index |-> effectiveIndex]

\* ------------------------------------------------------ createRelationship
\* What one triple yields: kind is "Relationship", "LoopError" or
\* "CycleError"; childIndex is <<i>> for a relationship.
Result(kind, parent, child, index) ==
  [kind |-> kind, parent |-> parent, child |-> child, childIndex |-> index]

Thrown(m, fault, parent, child) ==
  [map |-> m, fault |-> fault, result |-> Result("thrown", parent, child, NoIndex)]

\* A #createRelationship that registers a parent that is not a member yet
\* without relating it to the hierarch.
createRelationshipDetached(m, parent, child, childIndex) ==
  IF parent = child
  THEN [map |-> m, fault |-> "none", result |-> Result("LoopError", parent, child, NoIndex)]
  ELSE
  LET d == IF MapHas(m, child) THEN descendants(m, child)
           ELSE [defined |-> FALSE, fault |-> "none", set |-> {}]
  IN IF d.fault # "none" THEN Thrown(m, d.fault, parent, child)
     ELSE IF d.defined /\ parent \in d.set
     THEN [map |-> m, fault |-> "none", result |-> Result("CycleError", parent, child, NoIndex)]
     ELSE
     LET m2 == add(add(m, parent), child)
         pos == position(m2.kids[parent], child, childIndex)
     IN [map |-> MapSet(m2, parent, pos.array), fault |-> "none",
         result |-> Result("Relationship", parent, child, <<pos.index>>)]

RECURSIVE createRelationship(_, _, _, _)
createRelationship(m, parent, child, childIndex) ==
  IF parent = child
  THEN [map |-> m, fault |-> "none", result |-> Result("LoopError", parent, child, NoIndex)]
  ELSE
  LET d == IF MapHas(m, child) THEN descendants(m, child)
           ELSE [defined |-> FALSE, fault |-> "none", set |-> {}]
  IN IF d.fault # "none" THEN Thrown(m, d.fault, parent, child)
     ELSE IF d.defined /\ parent \in d.set
     THEN [map |-> m, fault |-> "none", result |-> Result("CycleError", parent, child, NoIndex)]
     ELSE
     LET inner == IF ~MapHas(m, parent)
                  THEN createRelationship(m, hierarch, parent, NoIndex)
                  ELSE [map |-> m, fault |-> "none",
                        result |-> Result("none", parent, child, NoIndex)]
     IN IF inner.fault # "none" THEN Thrown(inner.map, inner.fault, parent, child)
        ELSE
        LET m2 == add(inner.map, child)
        IN IF ~MapHas(m2, parent)
           \* this.#childrenMap.get(parent) is undefined: #position throws
           THEN Thrown(m2, "TypeError", parent, child)
           ELSE LET pos == position(m2.kids[parent], child, childIndex)
                IN [map |-> MapSet(m2, parent, pos.array), fault |-> "none",
                    result |-> Result("Relationship", parent, child, <<pos.index>>)]

\* ------------------------------------------------------------------ relate
\* relationships.map(#createRelationship) then #reduce(); an exception in
\* either leaves the map as mutated so far and nothing is returned.
RECURSIVE createAll(_, _, _, _)
createAll(m, batch, i, results) ==
  IF i > Len(batch) THEN [map |-> m, fault |-> "none", results |-> results]
  ELSE LET r == createRelationship(m, batch[i].parent, batch[i].child, batch[i].childIndex)
       IN IF r.fault # "none"
          THEN [map |-> r.map, fault |-> r.fault, results |-> <<>>]
          ELSE createAll(r.map, batch, i + 1, Append(results, r.result))

relate(m, batch) ==
  LET created == createAll(m, batch, 1, <<>>)
  IN IF created.fault # "none" THEN created
     ELSE LET red == reduce(created.map)
          IN [map |-> red.map, fault |-> red.fault,
              results |-> IF red.fault = "none" THEN created.results ELSE <<>>]

\* How many times one relate call runs #reduce: the call to it follows the
\* map over the triples, so an exception thrown for a triple skips it.
reductions(m, batch) ==
  IF createAll(m, batch, 1, <<>>).fault # "none" THEN 0 ELSE 1

\* --------------------------------------------------------- two instances
\* Arrays are objects: two instances can hold one and the same array, and
\* splice in #position changes an array in place, while #add, unrelate and
\* delete give a key a new array or none.  For a pair of instances, shared is
\* the set of keys under which both hold the same array object.

\* A constructor that stores the source's arrays themselves.
CloneSharedAll(source) == members(source)

\* The keys under which new OrderedOverlappingHierarchy(source) holds the
\* source's own array: none, the constructor stores Array.from(...) of the
\* copy that source.children(member) returns.
CloneShared(source) == {}

\* The other instance after arrays of m were changed in place under keys:
\* it sees the change under the keys it shares.
writeThrough(other, shared, m, keys) ==
  [keys |-> other.keys,
   kids |-> [v \in WideValues |-> IF v \in keys \cap shared THEN m.kids[v] ELSE other.kids[v]]]

\* relationships.map(#createRelationship) on m, as the other instance of the
\* pair lives through it.  A triple that relates splices into the parent's
\* array, and into the hierarch's when it inserts hierarch -> parent; #add
\* gives the child, and a parent registered on the way, a new array.
\* afterTriple is the step for triple t, r being what #createRelationship
\* made of it on m.
RECURSIVE createAllOther(_, _, _, _, _), afterTriple(_, _, _, _, _, _, _)
afterTriple(m, other, shared, batch, i, t, r) ==
  IF r.fault # "none"
  THEN [other |-> other,
        shared |-> IF r.fault = "TypeError"
                   THEN shared \ (IF t.parent = hierarch THEN {t.child} ELSE {t.parent})
                   ELSE shared]
  ELSE IF r.result.kind # "Relationship"
  THEN createAllOther(m, other, shared, batch, i + 1)
  ELSE createAllOther(r.map,
                      writeThrough(other, shared, r.map,
                                   {t.parent} \cup (IF MapHas(m, t.parent) THEN {} ELSE {hierarch})),
                      shared \ ({t.child} \cup (IF MapHas(m, t.parent) THEN {} ELSE {t.parent})),
                      batch, i + 1)

createAllOther(m, other, shared, batch, i) ==
  IF i > Len(batch) THEN [other |-> other, shared |-> shared]
  ELSE afterTriple(m, other, shared, batch, i, batch[i],
                   createRelationship(m, batch[i].parent, batch[i].child, batch[i].childIndex))

\* The keys that the #reduce pass which made reduced of m gave a new array
\* (unrelate filters the parent's list into a new one) or deleted.
reduceReplaced(m, reduced) ==
  {k \in WideValues : m.kids[k] # reduced.kids[k]} \cup (members(m) \ members(reduced))

\* A relate call for the pair: r is what the call returns and leaves on its
\* own instance, created what its triples left before #reduce, seen what the
\* other instance lived through.
pairAfterRelate(r, created, seen) ==
  [map |-> r.map, fault |-> r.fault, other |-> seen.other,
   shared |-> IF created.fault = "none" /\ r.fault = "none"
              THEN seen.shared \ reduceReplaced(created.map, r.map)
              ELSE seen.shared]

\* relate(batch) on the instance with map m, for the pair
relateBoth(m, other, shared, batch) ==
  pairAfterRelate(relate(m, batch), createAll(m, batch, 1, <<>>),
                  createAllOther(m, other, shared, batch, 1))

\* An unrelate call for the pair, m being the map before and after the map
\* after it.
pairAfterUnrelate(m, after, other, shared, parent) ==
  [map |-> after, other |-> other,
   shared |-> shared \ ({parent} \cup (members(m) \ members(after)))]

\* unrelate({parent, child}) on the instance with map m, for the pair
unrelateBoth(m, other, shared, parent, child) ==
  pairAfterUnrelate(m, unrelate(m, parent, child), other, shared, parent)

\* ------------------------------------------------- link / unlink / remove
\* The class of src/index.ts keeps a list #hierarchs of top-level nodes beside
\* #childrenMap.  A forest is the pair [hs |-> #hierarchs, map |-> #childrenMap].
\* An optional parent is <<>> (undefined) or <<p>>.
NoParent == <<>>

\* constructor(source): #hierarchs is source.children(), and every node of
\* source.descendants(), in key order, gets a copy of its children array
CopyOf(F) ==
  [hs |-> F.hs,
   map |-> [keys |-> F.map.keys,
            kids |-> [v \in WideValues |-> IF MapHas(F.map, v) THEN F.map.kids[v] ELSE <<>>]]]

\* descendants(node), parents(node), ancestors(node) of index.ts
nodeDescendants(m, node) == descendants(m, node)
nodeParents(m, node) == parentsOf(m, node)
nodeAncestors(m, node) == ancestors(m, node)

\* #add(node)
addNode(F, node) == [hs |-> F.hs, map |-> add(F.map, node)]

\* #positionArrayElement: array.splice(index, 0, element)
positionArrayElement(array, element, index) == SpliceIn(array, index, element)

\* #removeHierarch
removeHierarch(F, node) == [hs |-> Without(F.hs, node), map |-> F.map]

\* unlink(parent, child): the parent's key is set to its children without the
\* child ([] for a parent that is no node), and a child that is a node and has
\* no parent then is pushed onto #hierarchs
unlink(F, parent, child) ==
  LET m1 == MapSet(F.map, parent,
                   IF MapHas(F.map, parent) THEN Without(F.map.kids[parent], child) ELSE <<>>)
  IN [hs |-> IF nodeParents(m1, child).defined /\ nodeParents(m1, child).set = {}
             THEN Append(F.hs, child) ELSE F.hs,
      map |-> m1]

\* #links: the [parent, child] pairs in key order, each parent's in list order
links(m) == relationshipsFrom(m, 1)

\* #isRedundantLink: unlink in a copy, then ask whether the child is still a
\* descendant of the parent there
isRedundantLink(F, child, parent) ==
  hasDescendant(unlink(CopyOf(F), parent, child).map, parent, child).value

\* forEach(([parent, child]) => this.unlink(parent, child)) over the links the
\* filter kept
RECURSIVE unlinkAll(_, _, _, _)
unlinkAll(F, edges, keep, i) ==
  IF i > Len(edges) THEN F
  ELSE unlinkAll(IF keep[i] THEN unlink(F, edges[i].parent, edges[i].child) ELSE F,
                 edges, keep, i + 1)

\* #reduce: the filter runs over every link before any is removed
reduceLinks(F) ==
  unlinkAll(F, links(F.map),
            [i \in 1..Len(links(F.map)) |->
               isRedundantLink(F, links(F.map)[i].child, links(F.map)[i].parent)],
            1)

\* #validateNewParent: the error of the first validator that holds, or "none"
validateNewParent(F, node, parent) ==
  IF node = parent THEN "LoopError"
  ELSE IF MapHas(F.map, node) /\ parent \in nodeDescendants(F.map, node).set
  THEN "CycleError"
  ELSE IF /\ ~Includes(F.map.kids[parent], node)
          /\ node \in nodeDescendants(F.map, parent).set
  THEN "TransitiveReductionError"
  ELSE IF nodeDescendants(F.map, node).set \cap Range(F.map.kids[parent]) # {}
  THEN "TransitiveReductionError"
  ELSE IF nodeParents(F.map, node).set \cap nodeAncestors(F.map, parent).set # {}
  THEN "TransitiveReductionError"
  ELSE "none"

\* parents(node)?.forEach((parent) => this.unlink(parent, node)): the parents
\* found before the first unlink, in key order
RECURSIVE unlinkFrom(_, _, _, _)
unlinkFrom(F, ps, node, i) ==
  IF i > Len(ps) THEN F
  ELSE unlinkFrom(unlink(F, ps[i], node), ps, node, i + 1)

\* link(node, parent) with a parent that passed validation: #add both, unlink
\* the pair, take the node off #hierarchs, splice it into the parent's array
linkUnder(F, node, parent, index) ==
  LET F1 == removeHierarch(unlink(addNode(addNode(F, node), parent), parent, node), node)
      container == F1.map.kids[parent]
  IN [hs |-> F1.hs,
      map |-> MapSet(F1.map, parent,
                     positionArrayElement(container, node,
                                          IF index = NoIndex THEN Len(container) ELSE index[1]))]

\* link(node) without parent: #add the node, unlink it from each parent, splice
\* it into #hierarchs
linkTop(F, node, index) ==
  LET F1 == addNode(F, node)
      F2 == unlinkFrom(F1, SelectSeq(F1.map.keys, LAMBDA n : Includes(F1.map.kids[n], node)),
                       node, 1)
  IN [hs |-> positionArrayElement(F2.hs, node,
                                  IF index = NoIndex THEN Len(F2.hs) ELSE index[1]),
      map |-> F2.map]

\* link(node, parent?, index?): the forest left and the error returned
link(F, node, parent, index) ==
  IF parent # NoParent /\ validateNewParent(F, node, parent[1]) # "none"
  THEN [forest |-> F, error |-> validateNewParent(F, node, parent[1])]
  ELSE [forest |-> reduceLinks(IF parent # NoParent
                               THEN linkUnder(F, node, parent[1], index)
                               ELSE linkTop(F, node, index)),
        error |-> "none"]

\* remove(node): the key is deleted, the node taken off #hierarchs, and then
\* unlinked from every remaining node in key order
remove(F, node) ==
  LET F1 == removeHierarch([hs |-> F.hs, map |-> MapDelete(F.map, node)], node)
  IN unlinkFrom(F1, F1.map.keys, node, 1)

\* ------------------------------------------------------------------ inputs
Triples == [parent : Values, child : Values, childIndex : IndexArgs]

\* The arrays handed to relate: one triple with any childIndex, or two to
\* MaxBatch triples without childIndex.
PlainTriples == [parent : Values, child : Values, childIndex : {NoIndex}]
Batches ==
  {<<t>> : t \in Triples}
  \cup UNION {[1..n -> PlainTriples] : n \in 2..MaxBatch}

\* The triples over the wider value set, and the arrays of two of them in
\* which the second triple's parent is the first one's child.
WideTriples == [parent : WideValues, child : WideValues, childIndex : IndexArgs]
Chains ==
  {<<[parent |-> x, child |-> y, childIndex |-> NoIndex],
     [parent |-> y, child |-> z, childIndex |-> NoIndex]>> :
     x \in WideValues, y \in WideValues, z \in WideValues}

\* ------------------------------------------------------------------- state
VARIABLES
  childrenMap,   \* the instance's #childrenMap
  calls,         \* how many relate / unrelate calls have been made
  last,          \* the last call made on it: the method and the exception it
                 \* threw ("none" if it returned)
  hierarchs,     \* the #hierarchs list of an instance of the multi-root class
                 \* (src/index.ts), whose #childrenMap is childrenMap
  clone          \* a second instance made by new OrderedOverlappingHierarchy(source):
                 \* whether it was made, its #childrenMap, the keys whose array
                 \* it shares with the first, whether the last call was made on it

vars == <<childrenMap, calls, last, clone, hierarchs>>

NoClone == [made |-> FALSE, map |-> EmptyMap, shared |-> {}, called |-> FALSE]

Init ==
  /\ childrenMap = NewHierarchy
  /\ calls = 0
  /\ last = [op |-> "new", fault |-> "none"]
  /\ clone = NoClone
  /\ hierarchs = <<>>

Relate(batch) ==
  LET r == relate(childrenMap, batch)
  IN /\ calls < MaxCalls
     /\ calls' = calls + 1
     /\ childrenMap' = r.map
     /\ last' = [op |-> "relate", fault |-> r.fault]
     /\ UNCHANGED <<clone, hierarchs>>

Unrelate(parent, child) ==
  /\ calls < MaxCalls
  /\ calls' = calls + 1
  /\ childrenMap' = unrelate(childrenMap, parent, child)
  /\ last' = [op |-> "unrelate", fault |-> "none"]
  /\ UNCHANGED <<clone, hierarchs>>

Next ==
  \/ \E batch \in Batches : Relate(batch)
  \/ \E parent \in Values, child \in Values : Unrelate(parent, child)

Spec == Init /\ [][Next]_vars

\* An instance on which only relate is called.
NextRelate == \E batch \in Batches : Relate(batch)

SpecRelate == Init /\ [][NextRelate]_vars

\* An instance on which arrays of two chained triples are related and pairs
\* unrelated, over the wider value set.
RelateChain(batch) ==
  /\ calls < MaxWideCalls
  /\ \E r \in {relate(childrenMap, batch)} :
       /\ calls' = calls + 1
       /\ childrenMap' = r.map
       /\ last' = [op |-> "relate", fault |-> r.fault]
       /\ UNCHANGED <<clone, hierarchs>>

UnrelateWide(parent, child) ==
  /\ calls < MaxWideCalls
  /\ calls' = calls + 1
  /\ childrenMap' = unrelate(childrenMap, parent, child)
  /\ last' = [op |-> "unrelate", fault |-> "none"]
  /\ UNCHANGED <<clone, hierarchs>>

NextWide ==
  \/ \E batch \in Chains : RelateChain(batch)
  \/ \E parent \in WideValues, child \in WideValues : UnrelateWide(parent, child)

SpecWide == Init /\ [][NextWide]_vars

\* A source instance and a clone of it, made at any moment, with relate and
\* unrelate called on either.
Construct ==
  /\ ~clone.made
  /\ clone' = [made |-> TRUE, map |-> Clone(childrenMap),
               shared |-> CloneShared(childrenMap), called |-> FALSE]
  /\ last' = [op |-> "new", fault |-> "none"]
  /\ UNCHANGED <<childrenMap, calls, hierarchs>>

SourceRelate(batch) ==
  /\ calls < MaxPairCalls
  /\ UNCHANGED hierarchs
  /\ calls' = calls + 1
  /\ \E r \in {relateBoth(childrenMap, clone.map, clone.shared, batch)} :
       /\ childrenMap' = r.map
       /\ clone' = [clone EXCEPT !.map = r.other, !.shared = r.shared, !.called = FALSE]
       /\ last' = [op |-> "relate", fault |-> r.fault]

SourceUnrelate(parent, child) ==
  /\ calls < MaxPairCalls
  /\ UNCHANGED hierarchs
  /\ calls' = calls + 1
  /\ \E r \in {unrelateBoth(childrenMap, clone.map, clone.shared, parent, child)} :
       /\ childrenMap' = r.map
       /\ clone' = [clone EXCEPT !.map = r.other, !.shared = r.shared, !.called = FALSE]
  /\ last' = [op |-> "unrelate", fault |-> "none"]

CloneRelate(batch) ==
  /\ clone.made
  /\ calls < MaxPairCalls
  /\ UNCHANGED hierarchs
  /\ calls' = calls + 1
  /\ \E r \in {relateBoth(clone.map, childrenMap, clone.shared, batch)} :
       /\ childrenMap' = r.other
       /\ clone' = [clone EXCEPT !.map = r.map, !.shared = r.shared, !.called = TRUE]
       /\ last' = [op |-> "relate", fault |-> r.fault]

CloneUnrelate(parent, child) ==
  /\ clone.made
  /\ calls < MaxPairCalls
  /\ UNCHANGED hierarchs
  /\ calls' = calls + 1
  /\ \E r \in {unrelateBoth(clone.map, childrenMap, clone.shared, parent, child)} :
       /\ childrenMap' = r.other
       /\ clone' = [clone EXCEPT !.map = r.map, !.shared = r.shared, !.called = TRUE]
  /\ last' = [op |-> "unrelate", fault |-> "none"]

NextClone ==
  \/ Construct
  \/ \E batch \in Batches : SourceRelate(batch)
  \/ \E parent \in Values, child \in Values : SourceUnrelate(parent, child)
  \/ \E batch \in Batches : CloneRelate(batch)
  \/ \E parent \in Values, child \in Values : CloneUnrelate(parent, child)

SpecClone == Init /\ [][NextClone]_vars

\* An instance of the multi-root class of src/index.ts, made by new
\* OrderedOverlappingHierarchy() without source.
LinkValues == {"a", "b", "c"}
ParentArgs == {NoParent} \cup {<<p>> : p \in LinkValues}
LinkIndexArgs == {NoIndex} \cup {<<i>> : i \in 0..MaxLinkIndex}

InitLink ==
  /\ childrenMap = EmptyMap
  /\ hierarchs = <<>>
  /\ calls = 0
  /\ last = [op |-> "new", fault |-> "none"]
  /\ clone = NoClone

Link(node, parent, index) ==
  /\ calls < MaxLinkCalls
  /\ \E r \in {link([hs |-> hierarchs, map |-> childrenMap], node, parent, index)} :
       /\ hierarchs' = r.forest.hs
       /\ childrenMap' = r.forest.map
       /\ last' = [op |-> "link", fault |-> r.error]
  /\ calls' = calls + 1
  /\ UNCHANGED clone

Unlink(parent, child) ==
  /\ calls < MaxLinkCalls
  /\ \E F \in {unlink([hs |-> hierarchs, map |-> childrenMap], parent, child)} :
       /\ hierarchs' = F.hs
       /\ childrenMap' = F.map
  /\ last' = [op |-> "unlink", fault |-> "none"]
  /\ calls' = calls + 1
  /\ UNCHANGED clone

Remove(node) ==
  /\ calls < MaxLinkCalls
  /\ \E F \in {remove([hs |-> hierarchs, map |-> childrenMap], node)} :
       /\ hierarchs' = F.hs
       /\ childrenMap' = F.map
  /\ last' = [op |-> "remove", fault |-> "none"]
  /\ calls' = calls + 1
  /\ UNCHANGED clone

NextLink ==
  \/ \E node \in LinkValues, parent \in ParentArgs, index \in LinkIndexArgs :
       Link(node, parent, index)
  \/ \E parent \in LinkValues, child \in LinkValues : Unlink(parent, child)
  \/ \E node \in LinkValues : Remove(node)

SpecLink == InitLink /\ [][NextLink]_vars

\* ============================================================== properties
\* The graph the map stores, read directly (not through the class's methods).
Edges(m) == {e \in WideValues \X WideValues : MapHas(m, e[1]) /\ Includes(m.kids[e[1]], e[2])}

\* The values reachable from the set S by one or more edges of E.
RECURSIVE ReachSet(_, _)
ReachSet(E, S) ==
  LET step == {e[2] : e \in {f \in E : f[1] \in S}}
  IN IF step \subseteq S THEN S ELSE ReachSet(E, S \cup step)

Reach(E, x) ==
  LET first == {e[2] : e \in {f \in E : f[1] = x}}
  IN ReachSet(E, first)

\* Same members and same ordered children lists (the Map's key order, which
\* no query shows as an order, aside).
SameStructure(m1, m2) == members(m1) = members(m2) /\ m1.kids = m2.kids

\* The kind of each result an array of results holds, in order.
Kinds(results) == [i \in 1..Len(results) |-> results[i].kind]

Single(parent, child, index) ==
  <<[parent |-> parent, child |-> child, childIndex |-> index]>>

\* A further call can be made on the instance in this state.
CallAllowed == calls < MaxCalls

\* C1: transitive reduction.  After every relate and unrelate call no stored
\* edge is redundant: for every member p and every c in children(p), c is not
\* reachable from p by a path that avoids the direct edge p -> c.
TransitiveReduction ==
  \A e \in Edges(childrenMap) : e[2] \notin Reach(Edges(childrenMap) \ {e}, e[1])

\* C2: acyclicity.  No member is reachable from itself through child edges.
Acyclicity ==
  \A member \in members(childrenMap) : member \notin Reach(Edges(childrenMap), member)

\* C3: the hierarch is never removed: it is always in members().
HierarchIsMember == hierarch \in members(childrenMap)

\* C4: the hierarch never has a parent: no edge x -> hierarch is ever stored.
HierarchHasNoParent ==
  \A e \in Edges(childrenMap) : e[2] # hierarch

\* C5: cycle rejection.  Whenever child is a member and parent is one of its
\* descendants, relate(parent, child) returns a CycleError for that triple and
\* changes neither members() nor any children list.
CycleRejection ==
  CallAllowed =>
    \A t \in Triples :
      ( /\ t.parent # t.child
        /\ MapHas(childrenMap, t.child)
        /\ t.parent \in Reach(Edges(childrenMap), t.child) )
      => LET r == relate(childrenMap, <<t>>)
         IN /\ r.fault = "none"
            /\ Kinds(r.results) = <<"CycleError">>
            /\ SameStructure(r.map, childrenMap)

\* C6: self-loop rejection.  For every value x, member or not, relate(x, x)
\* returns a LoopError and changes neither members() nor any children list.
SelfLoopRejection ==
  CallAllowed =>
    \A x \in Values, index \in IndexArgs :
      LET r == relate(childrenMap, Single(x, x, index))
      IN /\ r.fault = "none"
         /\ Kinds(r.results) = <<"LoopError">>
         /\ SameStructure(r.map, childrenMap)

\* C7: no partial failure.  A relate call never aborts with a fault, and a
\* triple that is not answered with a relationship leaves members() and every
\* children list as they were (no member is registered without the insertion).
NoPartialFailure ==
  CallAllowed =>
    \A t \in Triples :
      LET r == relate(childrenMap, <<t>>)
      IN /\ r.fault = "none"
         /\ Kinds(r.results) # <<"Relationship">> => SameStructure(r.map, childrenMap)

\* C8: an existing child retains its index by default.  If child is already in
\* children(parent), relate(parent, child) without index leaves children(parent)
\* exactly as it was.
ExistingChildRetainsIndex ==
  CallAllowed =>
    \A parent \in members(childrenMap), child \in Values :
      Includes(childrenMap.kids[parent], child)
      => relate(childrenMap, Single(parent, child, NoIndex)).map.kids[parent]
           = childrenMap.kids[parent]

\* C9: idempotence.  relate(parent, child) without index made twice in a row
\* leaves the same members() and the same ordered children lists as made once.
RelateIdempotent ==
  CallAllowed =>
    \A parent \in Values, child \in Values :
      LET once == relate(childrenMap, Single(parent, child, NoIndex)).map
          twice == relate(once, Single(parent, child, NoIndex)).map
      IN SameStructure(twice, once)

\* A single-triple relate(parent, child, index) made in the current state that
\* returns a relationship and leaves child among children(parent).
Positioned(t) ==
  LET r == relate(childrenMap, <<t>>)
  IN /\ r.fault = "none"
     /\ Kinds(r.results) = <<"Relationship">>
     /\ Includes(r.map.kids[t.parent], t.child)

\* parent's children other than child before the call, and all of them after it
OthersBefore(t) == Without(childrenMap.kids[t.parent], t.child)
ChildrenAfter(t) == relate(childrenMap, <<t>>).map.kids[t.parent]

\* the index lies in 0..(number of parent's other children)
InRange(t) ==
  /\ t.childIndex # NoIndex
  /\ t.childIndex[1] >= 0
  /\ t.childIndex[1] <= Len(OthersBefore(t))

\* the other children that are still children keep their relative order
OthersKeepOrder(t) ==
  Without(ChildrenAfter(t), t.child)
    = SelectSeq(OthersBefore(t), LAMBDA x : Includes(ChildrenAfter(t), x))

\* C10 as stated: (a) without index a child that was not in children(parent)
\* becomes the last child; (b) with an index i in 0..(number of parent's other
\* children) the child ends at exactly position i and the other children keep
\* their relative order.
PositioningAsStated ==
  CallAllowed =>
    \A t \in Triples :
      Positioned(t) =>
        /\ (t.childIndex = NoIndex /\ ~Includes(childrenMap.kids[t.parent], t.child))
             => ChildrenAfter(t)[Len(ChildrenAfter(t))] = t.child
        /\ InRange(t)
             => /\ IndexOf(ChildrenAfter(t), t.child) = t.childIndex[1]
                /\ OthersKeepOrder(t)

\* C10 amended: as stated, except that in (b) the child ends at position i
\* minus the number of parent's other children that stood before position i
\* and were removed from children(parent) by the reduction pass of the call.
PositioningUpToReduction ==
  CallAllowed =>
    \A t \in Triples :
      Positioned(t) =>
        /\ (t.childIndex = NoIndex /\ ~Includes(childrenMap.kids[t.parent], t.child))
             => ChildrenAfter(t)[Len(ChildrenAfter(t))] = t.child
        /\ InRange(t)
             => /\ IndexOf(ChildrenAfter(t), t.child)
                     = t.childIndex[1]
                       - Cardinality({j \in 1..t.childIndex[1] :
                                        ~Includes(ChildrenAfter(t), OthersBefore(t)[j])})
                /\ OthersKeepOrder(t)

\* C10 witness: a child inserted by an explicit in-range index after another
\* child, which the reduction pass of the same call then removes.
PositioningWitness ==
  /\ CallAllowed
  /\ \E t \in Triples :
       /\ Positioned(t)
       /\ InRange(t)
       /\ t.childIndex[1] > 0
       /\ IndexOf(ChildrenAfter(t), t.child) < t.childIndex[1]


Clamp(i, lo, hi) == IF i < lo THEN lo ELSE IF i > hi THEN hi ELSE i

\* C11: index clamping.  For any integer index, relate(parent, child, index)
\* inserts child at position clamp(index, 0, n), n being the number of parent's
\* other children: above n the child becomes last, below 0 it becomes first.
\* (The position is counted among the other children the call leaves in
\* children(parent), so that a sibling removed by the reduction pass does not
\* count against the statement.)
IndexClamping ==
  CallAllowed =>
    \A t \in Triples :
      (Positioned(t) /\ t.childIndex # NoIndex) =>
        LET at == Clamp(t.childIndex[1], 0, Len(OthersBefore(t)))
        IN IndexOf(ChildrenAfter(t), t.child)
             = at - Cardinality({j \in 1..at :
                                   ~Includes(ChildrenAfter(t), OthersBefore(t)[j])})


\* the number of entries of the array s equal to x
Count(s, x) == Cardinality({i \in 1..Len(s) : s[i] = x})

\* C12: no duplicate children.  In every reachable state no member appears
\* more than once in any children list, and relationships() holds at most one
\* edge per (parent, child) pair.
NoDuplicateChildren ==
  /\ \A parent \in members(childrenMap), child \in Values :
       Count(childrenMap.kids[parent], child) <= 1
  /\ LET rels == relationships(childrenMap)
     IN \A i \in 1..Len(rels), j \in 1..Len(rels) :
          (rels[i].parent = rels[j].parent /\ rels[i].child = rels[j].child) => i = j

\* C12 witness: a child already in children(parent), beside another child, is
\* related to the same parent again and the call succeeds.
NoDuplicateWitness ==
  /\ CallAllowed
  /\ \E t \in Triples :
       /\ Includes(childrenMap.kids[t.parent], t.child)
       /\ Len(childrenMap.kids[t.parent]) >= 2
       /\ Positioned(t)
       /\ Count(ChildrenAfter(t), t.child) = 1


\* C13: the returned relationship reflects the final position.  Whenever
\* relate returns a relationship for a triple, child is in children(parent)
\* after the call and the returned index is child's position there (also for
\* an index above the list's length, for a re-relate without index and for a
\* triple whose edge is redundant).
ReturnedIndexIsFinalPosition ==
  CallAllowed =>
    \A t \in Triples :
      LET r == relate(childrenMap, <<t>>)
      IN (r.fault = "none" /\ Kinds(r.results) = <<"Relationship">>) =>
           /\ Includes(r.map.kids[t.parent], t.child)
           /\ r.results[1].childIndex = <<IndexOf(r.map.kids[t.parent], t.child)>>


\* a single-triple relate made in the current state returns a relationship
Succeeds(t) ==
  LET r == relate(childrenMap, <<t>>)
  IN r.fault = "none" /\ Kinds(r.results) = <<"Relationship">>

MapAfter(t) == relate(childrenMap, <<t>>).map

\* C14: implicit parent attachment.  After a successful single-triple
\* relate(parent, child) whose parent was not a member before the call, parent
\* is a member, parents(parent) = {hierarch} and parent is the last child of
\* the hierarch.
ImplicitParentAttachment ==
  CallAllowed =>
    \A t \in Triples :
      (~MapHas(childrenMap, t.parent) /\ Succeeds(t)) =>
        /\ MapHas(MapAfter(t), t.parent)
        /\ parents(MapAfter(t), t.parent) = {hierarch}
        /\ Len(MapAfter(t).kids[hierarch]) > 0
        /\ MapAfter(t).kids[hierarch][Len(MapAfter(t).kids[hierarch])] = t.parent

\* C14 witness: the hierarch has a child already, and a relate whose parent is
\* not a member succeeds.
ImplicitParentWitness ==
  /\ CallAllowed
  /\ childrenMap.kids[hierarch] # <<>>
  /\ \E t \in Triples : ~MapHas(childrenMap, t.parent) /\ Succeeds(t)


\* C15: rooted reachability under relate.  In every state reached from a fresh
\* hierarchy by relate calls only, every member other than the hierarch is
\* reachable from the hierarch through child edges.
RootedReachability ==
  \A member \in members(childrenMap) \ {hierarch} :
    member \in Reach(Edges(childrenMap), hierarch)

\* C15 witness: after relate calls, a member that is not a child of the
\* hierarch, under a parent that is.
RootedReachabilityWitness ==
  /\ last.op = "relate"
  /\ \E parent \in members(childrenMap) \ {hierarch}, child \in members(childrenMap) :
       /\ Includes(childrenMap.kids[hierarch], parent)
       /\ Includes(childrenMap.kids[parent], child)
       /\ ~Includes(childrenMap.kids[hierarch], child)


\* C16: connectivity of membership.  In every state reachable by relate and
\* unrelate calls, every member other than the hierarch has at least one
\* parent.
ConnectivityOfMembership ==
  \A member \in members(childrenMap) \ {hierarch} :
    parents(childrenMap, member) # {}


\* child is in children(parent) and parent is child's only parent
OnlyParent(parent, child) ==
  /\ MapHas(childrenMap, parent)
  /\ Includes(childrenMap.kids[parent], child)
  /\ parents(childrenMap, child) = {parent}

\* C17: orphan cascade.  If child is in children(parent) and parent is child's
\* only parent, then after unrelate(parent, child) child is not in members()
\* and the queries on child (children, descendants, parents, ancestors, which
\* all start from #childrenMap.has / .get of the member) find it absent.
OrphanCascade ==
  CallAllowed =>
    \A parent \in Values, child \in Values :
      OnlyParent(parent, child) =>
        LET m == unrelate(childrenMap, parent, child)
        IN /\ child \notin members(m)
           /\ ~MapHas(m, child)
           /\ ~descendants(m, child).defined

\* C17 witness: a member with children of its own whose only parent edge can
\* be removed.
OrphanCascadeWitness ==
  /\ CallAllowed
  /\ \E parent \in Values, child \in Values :
       /\ OnlyParent(parent, child)
       /\ MapHas(childrenMap, child)
       /\ childrenMap.kids[child] # <<>>
       /\ ~MapHas(unrelate(childrenMap, parent, child), child)


\* C18: self-unrelate of the hierarch is a no-op.  In every reachable state
\* unrelate(hierarch, hierarch) leaves members(), every children list and
\* relationships() exactly as they were.
HierarchSelfUnrelateNoOp ==
  CallAllowed =>
    LET m == unrelate(childrenMap, hierarch, hierarch)
    IN /\ SameStructure(m, childrenMap)
       /\ relationships(m) = relationships(childrenMap)

\* C19: unrelate of a non-existent edge is a no-op.  For every pair
\* (parent, child) with child not in children(parent), members or not,
\* unrelate(parent, child) leaves members() and every children list unchanged.
UnrelateAbsentEdgeNoOp ==
  CallAllowed =>
    \A parent \in Values, child \in Values :
      ~(MapHas(childrenMap, parent) /\ Includes(childrenMap.kids[parent], child))
      => SameStructure(unrelate(childrenMap, parent, child), childrenMap)

\* child is in children(parent) and has another parent as well
HasOtherParent(parent, child) ==
  /\ MapHas(childrenMap, parent)
  /\ Includes(childrenMap.kids[parent], child)
  /\ parents(childrenMap, child) \ {parent} # {}

\* C20: unrelate touches only the named edge when the child keeps another
\* parent.  If child is in children(parent) and has at least one other parent,
\* then after unrelate(parent, child) child is still a member, child is not in
\* children(parent), and members() and the ordered children list of every
\* member other than parent are unchanged.
UnrelateTouchesOnlyNamedEdge ==
  CallAllowed =>
    \A parent \in Values, child \in Values :
      HasOtherParent(parent, child) =>
        LET m == unrelate(childrenMap, parent, child)
        IN /\ MapHas(m, child)
           /\ ~Includes(m.kids[parent], child)
           /\ members(m) = members(childrenMap)
           /\ \A other \in Values \ {parent} : m.kids[other] = childrenMap.kids[other]

\* C20 witness: a child with two parents; once the edge from one of them is
\* removed the child is still a member and still a child of the other.
UnrelateNamedEdgeWitness ==
  /\ CallAllowed
  /\ \E parent \in Values, child \in Values :
       /\ HasOtherParent(parent, child)
       /\ MapHas(unrelate(childrenMap, parent, child), child)
       /\ \E other \in parents(childrenMap, child) \ {parent} :
            Includes(unrelate(childrenMap, parent, child).kids[other], child)


\* the triples of a batch that the call does not reject, in order
RECURSIVE Accepted(_, _, _)
Accepted(batch, results, i) ==
  IF i > Len(batch) THEN <<>>
  ELSE (IF results[i].kind = "Relationship" THEN <<batch[i]>> ELSE <<>>)
       \o Accepted(batch, results, i + 1)

\* C21: batch independence.  relate(list) returns exactly one result per
\* input triple, in input order, each a relationship for that triple's parent
\* and child or a LoopError / CycleError; and a rejected triple prevents no
\* other triple from being inserted: the call leaves what the same call
\* without its rejected triples leaves.
BatchIndependence ==
  CallAllowed =>
    \A batch \in Batches :
      LET r == relate(childrenMap, batch)
      IN /\ r.fault = "none"
         /\ Len(r.results) = Len(batch)
         /\ \A i \in 1..Len(batch) :
              /\ r.results[i].kind \in {"Relationship", "LoopError", "CycleError"}
              /\ r.results[i].kind = "Relationship"
                   => (r.results[i].parent = batch[i].parent
                       /\ r.results[i].child = batch[i].child)
         /\ SameStructure(r.map, relate(childrenMap, Accepted(batch, r.results, 1)).map)


\* C22: the reduction runs once, last.  Within one relate call no edge and no
\* member is removed until every triple of the batch has been processed, and
\* the reduction pass runs exactly once per call, on what the last triple
\* leaves, however many triples succeed, fail or insert hierarch -> parent.
ReductionOnceLast ==
  CallAllowed =>
    \A batch \in Batches :
      LET created == createAll(childrenMap, batch, 1, <<>>)
      IN /\ Edges(childrenMap) \subseteq Edges(created.map)
         /\ members(childrenMap) \subseteq members(created.map)
         /\ reductions(childrenMap, batch) = 1
         /\ relate(childrenMap, batch).map = reduce(created.map).map


\* C23: clone equality.  For every reachable state of a source hierarchy,
\* new(source) has the same members() and, for every member, the same ordered
\* children list as the source (the hierarch field is copied from the source).
CloneEquality == SameStructure(Clone(childrenMap), childrenMap)


\* relationships() as an argument of relate: every triple with its index
Replay(m) ==
  [i \in 1..Len(relationships(m)) |->
     [parent |-> relationships(m)[i].parent,
      child |-> relationships(m)[i].child,
      childIndex |-> <<relationships(m)[i].childIndex>>]]

\* C25: round trip through relationships().  For every reachable state, a
\* fresh hierarchy with the same hierarch to which every triple of
\* relationships() is related, each parent's edges in child-index order and
\* with their index, has the same members() and the same ordered children
\* list for every member.
RoundTrip ==
  LET r == relate(NewHierarchy, Replay(childrenMap))
  IN r.fault = "none" /\ SameStructure(r.map, childrenMap)


Returned(answer) == answer.defined /\ answer.fault = "none"

\* C27: absent result for non-members.  In every reachable state children(x),
\* parents(x), descendants(x) and ancestors(x) are undefined if and only if x
\* is not in members(); for a member without children, children and
\* descendants return an empty collection, and for a member without parents,
\* parents and ancestors do.
AbsentForNonMembers ==
  \A x \in Values :
    /\ children(childrenMap, x).defined <=> x \in members(childrenMap)
    /\ parentsOf(childrenMap, x).defined <=> x \in members(childrenMap)
    /\ descendants(childrenMap, x).defined <=> x \in members(childrenMap)
    /\ ancestors(childrenMap, x).defined <=> x \in members(childrenMap)
    /\ (x \in members(childrenMap) /\ children(childrenMap, x).array = <<>>)
         => /\ Returned(descendants(childrenMap, x))
            /\ descendants(childrenMap, x).set = {}
    /\ (x \in members(childrenMap) /\ parentsOf(childrenMap, x).set = {})
         => /\ Returned(ancestors(childrenMap, x))
            /\ ancestors(childrenMap, x).set = {}


\* C28: descendants is the downward transitive closure.  For every member m
\* in every reachable state, descendants(m) is exactly the set of members
\* reachable from m by one or more child edges, and does not contain m.
DescendantsIsClosure ==
  \A member \in members(childrenMap) :
    /\ Returned(descendants(childrenMap, member))
    /\ descendants(childrenMap, member).set = Reach(Edges(childrenMap), member)
    /\ member \notin descendants(childrenMap, member).set

\* C29: ancestors is the exact inverse of descendants.  For all members a and
\* m in every reachable state, a is in ancestors(m) if and only if m is in
\* descendants(a), and m is not in ancestors(m).
AncestorsInverseOfDescendants ==
  \A a \in members(childrenMap), member \in members(childrenMap) :
    /\ Returned(ancestors(childrenMap, member))
    /\ Returned(descendants(childrenMap, a))
    /\ a \in ancestors(childrenMap, member).set
         <=> member \in descendants(childrenMap, a).set
    /\ member \notin ancestors(childrenMap, member).set


\* the triples of relationships(), as a set
Relationships(m) == Range(relationships(m))

\* C30: relationships() is exactly the stored edge set.  In every reachable
\* state it holds one triple (p, c, i) for each member p and each position i
\* with children(p)[i] = c, and nothing else; so p is in parents(c) if and
\* only if some triple (p, c, i) is in relationships().
RelationshipsAreStoredEdges ==
  /\ Relationships(childrenMap)
       = UNION {{[parent |-> p, child |-> childrenMap.kids[p][j], childIndex |-> j - 1] :
                   j \in 1..Len(childrenMap.kids[p])} : p \in members(childrenMap)}
  /\ Len(relationships(childrenMap)) = Cardinality(Relationships(childrenMap))
  /\ \A p \in Values, c \in Values :
       (parentsOf(childrenMap, c).defined /\ p \in parentsOf(childrenMap, c).set)
         <=> \E rel \in Relationships(childrenMap) : rel.parent = p /\ rel.child = c

\* C30 witness: a member with two parents, each with its own triple in
\* relationships().
RelationshipsWitness ==
  \E c \in members(childrenMap) :
    /\ Cardinality(parentsOf(childrenMap, c).set) >= 2
    /\ \A p \in parentsOf(childrenMap, c).set :
         \E rel \in Relationships(childrenMap) : rel.parent = p /\ rel.child = c


\* what members() and relationships() show of a map
Shown(m) == <<members(m), relationships(m)>>

Termination ==
  /\ \A member \in Values :
       /\ descendants(childrenMap, member).fault # "RangeError"
       /\ ancestors(childrenMap, member).fault # "RangeError"
  /\ CallAllowed =>
       \A batch \in Batches : relate(childrenMap, batch).fault # "RangeError"


\* C32: relate only adds reachability.  For any relate call on an acyclic
\* hierarchy, every member present before the call is present after it, every
\* pair (a, d) with d in descendants(a) before the call has d in
\* descendants(a) after it, and for every successful triple child is in
\* descendants(parent) afterwards, the direct edge removed as redundant or not.
RelateOnlyAddsReachability ==
  (CallAllowed /\ Acyclicity) =>
    \A batch \in Batches :
      \E r \in {relate(childrenMap, batch)} :
        /\ members(childrenMap) \subseteq members(r.map)
        /\ \A a \in members(childrenMap) :
             /\ Returned(descendants(r.map, a))
             /\ descendants(childrenMap, a).set \subseteq descendants(r.map, a).set
        /\ r.fault = "none" =>
             \A i \in 1..Len(batch) :
               r.results[i].kind = "Relationship"
                 => batch[i].child \in descendants(r.map, batch[i].parent).set


\* C33: relating to an existing non-child descendant changes nothing.  If
\* child is a member, child is in descendants(parent) and child is not in
\* children(parent), then relate(parent, child) with any or no index returns
\* without error and leaves members() and every ordered children list as they
\* were.
NonChildDescendantNoOp ==
  \A t \in WideTriples :
    ( /\ MapHas(childrenMap, t.child)
      /\ Returned(descendants(childrenMap, t.parent))
      /\ t.child \in descendants(childrenMap, t.parent).set
      /\ ~Includes(childrenMap.kids[t.parent], t.child) )
    => \E r \in {relate(childrenMap, <<t>>)} :
         /\ r.fault = "none"
         /\ Kinds(r.results) = <<"Relationship">>
         /\ SameStructure(r.map, childrenMap)


Named(batch) == {<<batch[i].parent, batch[i].child>> : i \in 1..Len(batch)}

\* C35: batch validation is interleaved with insertion.  Triple k of a batch
\* is validated against the structure as modified by triples 1..k-1 of the
\* same call: for two values a, b that are not members yet, relate([(a, b),
\* (b, a)]) inserts the first triple and returns CycleError for the second;
\* and no batch leaves a directed cycle among the edges its own triples name.
InterleavedValidation ==
  CallAllowed =>
    /\ \A a \in Values \ {hierarch}, b \in Values \ {hierarch} :
         (a # b /\ ~MapHas(childrenMap, a) /\ ~MapHas(childrenMap, b)) =>
           \E r \in {relate(childrenMap, <<[parent |-> a, child |-> b, childIndex |-> NoIndex],
                                          [parent |-> b, child |-> a, childIndex |-> NoIndex]>>)} :
             /\ r.fault = "none"
             /\ Kinds(r.results) = <<"Relationship", "CycleError">>
             /\ Includes(r.map.kids[a], b)
             /\ ~Includes(r.map.kids[b], a)
    /\ Acyclicity =>
         \A batch \in Batches :
           \E left \in {Named(batch) \cap Edges(relate(childrenMap, batch).map)} :
             \A v \in Values : v \notin Reach(left, v)


\* The members that are children of q in both maps, those in skip aside, stand
\* in the same relative order in both.
SiblingsKeepOrder(before, after, q, skip) ==
  \A x \in Range(before.kids[q]) \ skip, y \in Range(before.kids[q]) \ skip :
    (Includes(after.kids[q], x) /\ Includes(after.kids[q], y)) =>
      (IndexOf(before.kids[q], x) < IndexOf(before.kids[q], y)
         <=> IndexOf(after.kids[q], x) < IndexOf(after.kids[q], y))

\* the children a batch relates under q
RelatedUnder(batch, q) == {batch[i].child : i \in {j \in 1..Len(batch) : batch[j].parent = q}}

\* C36: sibling order is stable.  For any relate or unrelate call and any
\* parent q, two members that are children of q before and after the call,
\* neither of them a child the call relates under q, keep their relative
\* order in children(q).
SiblingOrderStable ==
  /\ \A parent \in Values, child \in Values, q \in Values :
       SiblingsKeepOrder(childrenMap, unrelate(childrenMap, parent, child), q, {})
  /\ CallAllowed =>
       \A batch \in Batches :
         \E r \in {relate(childrenMap, batch)} :
           \A q \in Values :
             SiblingsKeepOrder(childrenMap, r.map, q, RelatedUnder(batch, q))

\* C36 witness: a parent with three children or more, from under which an
\* unrelate call can take one that is neither the first nor the last.
SiblingOrderWitness ==
  \E q \in Values, child \in Values :
    /\ Len(childrenMap.kids[q]) >= 3
    /\ Includes(childrenMap.kids[q], child)
    /\ IndexOf(childrenMap.kids[q], child) \notin {IndexOf(childrenMap.kids[q], childrenMap.kids[q][1]),
                                                  IndexOf(childrenMap.kids[q], childrenMap.kids[q][Len(childrenMap.kids[q])])}
    /\ Len(unrelate(childrenMap, q, child).kids[q]) = Len(childrenMap.kids[q]) - 1


\* What one relate call shows of each of its triples: the kind of its result,
\* or the exception that ended the call.
Outcomes(r, n) == IF r.fault # "none" THEN [i \in 1..n |-> r.fault] ELSE Kinds(r.results)

\* relate([t1]); ...; relate([tn]) from the map m: the map left and the
\* outcome of each call
RECURSIVE OneByOne(_, _, _, _)
OneByOne(m, batch, i, outcomes) ==
  IF i > Len(batch) THEN [map |-> m, outcomes |-> outcomes]
  ELSE LET r == relate(m, <<batch[i]>>)
       IN OneByOne(r.map, batch, i + 1, outcomes \o Outcomes(r, 1))

\* no triple of the batch names the hierarch as child
HierarchNotChild(batch) == \A i \in 1..Len(batch) : batch[i].child # hierarch

\* the batch call and the single calls agree on outcomes, members and edges
Agree(r, single, n) ==
  /\ Outcomes(r, n) = single.outcomes
  /\ members(r.map) = members(single.map)
  /\ Edges(r.map) = Edges(single.map)

\* C37: batch and one-by-one relate agree on the graph.  From a structure
\* built by relate calls, and for a list of triples none of which names the
\* hierarch as child, relate([t1..tn]) and the calls relate([t1]); ...;
\* relate([tn]) give each triple the same outcome and leave the same members()
\* and the same set of parent -> child edges.
BatchAgreesWithSingles ==
  CallAllowed =>
    \A batch \in Batches :
      HierarchNotChild(batch) =>
        Agree(relate(childrenMap, batch), OneByOne(childrenMap, batch, 1, <<>>), Len(batch))


\* C38: no dangling children.  In every reachable state every value in some
\* member's children list is itself in members(), so that descendants never
\* meets a value without a children list.
NoDanglingChildren ==
  \A p \in members(childrenMap) :
    \A c \in Range(childrenMap.kids[p]) :
      /\ c \in members(childrenMap)
      /\ children(childrenMap, c).defined

\* C38 witness: an unrelate call has just been made, and from the state it
\* left a further unrelate deletes a member that has a child of its own and
\* leaves no list with a value that is not a member.
NoDanglingWitness ==
  /\ last.op = "unrelate"
  /\ \E parent \in Values, child \in Values :
       \E m \in {unrelate(childrenMap, parent, child)} :
         /\ OnlyParent(parent, child)
         /\ childrenMap.kids[child] # <<>>
         /\ ~MapHas(m, child)
         /\ \A p \in members(m) : Range(m.kids[p]) \subseteq members(m)


\* C39: in the multi-root version, after any sequence of link, unlink and
\* remove calls the top-level list children() holds exactly the nodes that
\* have no parents, each exactly once.
TopLevelIsParentless ==
  /\ Range(hierarchs) = {n \in members(childrenMap) : nodeParents(childrenMap, n).set = {}}
  /\ \A n \in LinkValues : Count(hierarchs, n) <= 1

====
